---- MODULE Spec2Model ----
(***************************************************************************)
(* A model of the context-selection pipeline of the personal chatbot and   *)
(* of the components around it:                                            *)
(*   - Chunker.split            (src/src/business/rag/chunk.py)            *)
(*   - ReRanker.re_rank         (src/src/business/rag/re_ranker/...)       *)
(*   - select_context           (.../re_ranker/orchestrator.py)            *)
(*   - RAGPipeline.answer       (src/src/business/rag/retrieval.py)        *)
(*   - VectorStore.upsert       (src/src/business/rag/vector_store.py)     *)
(*   - build_index              (src/src/business/rag/index_builder.py)    *)
(*   - the relevance scorers    (.../re_ranker/cross_encoder.py, mocks.py) *)
(*   - ChatController           (src/src/api/controller.py)                *)
(*   - TokenBucket              (src/src/api/ratelimiter.py)               *)
(*   - ResponseCache            (src/src/memory/responsecache.py)          *)
(*   - RedisMemory              (src/src/memory/redis_memory.py)           *)
(*                                                                         *)
(* The specifications share the variables:                                 *)
(*   SpecChunker    runs Chunker.split, one loop iteration per step;       *)
(*   Spec           runs re_rank, select_context and answer, one call per  *)
(*                  step, the scorer's answer being chosen by the          *)
(*                  environment;                                           *)
(*   SpecStore      runs VectorStore.upsert on arbitrary arguments;        *)
(*   SpecIndex      runs build_index's chunk-embed-upsert on one document, *)
(*                  twice;                                                 *)
(*   SpecScorer     runs the two scorers, alone and inside re_rank;        *)
(*   SpecChunkId    runs _build_chunk_id on two fragments;                 *)
(*   SpecController runs send_message;                                     *)
(*   SpecBucket     runs TokenBucket.consume against a clock;              *)
(*   SpecCache      runs ResponseCache's set, get and invalidate_user;     *)
(*   SpecMemory     runs RedisMemory's calls, add_message in two steps.    *)
(* Each specification holds the other components' variables fixed.         *)
(***************************************************************************)
EXTENDS Integers, Sequences, FiniteSets

(***************************************************************************)
(* Bounds of the model.                                                    *)
(***************************************************************************)
MaxTextLen == 5
MaxChunkSize == 3
MaxCalls == 2
MaxCands == 3
MaxScore == 1
AlphaUnit == 2

\* chunk.py:67  chunk_text[:100]
PrefixLen == 100

MaxBatch == 2

MaxStart == 11

MaxCapacity == 2

MaxRate == 2

MaxTime == 3

MaxMessages == 2

MemTtl == 2

\* Token counts are kept in 1/TokenUnit of a token, so that a refill can add
\* a fraction of a token
TokenUnit == 2

\* Loop iterations the model follows in one call of split. A call that
\* returns needs at most Len(text) iterations (its stride is >= 1), so the
\* cap only cuts calls that would never return.
MaxIter == MaxTextLen + 2

Min(a, b) == IF a < b THEN a ELSE b
Max(a, b) == IF a > b THEN a ELSE b

(***************************************************************************)
(* Python primitives used by the code.                                     *)
(***************************************************************************)
Chars == {"a", " "}

IsSpace(c) == c = " "

\* s[lo:hi] for a Python sequence: negative indices count from the end,
\* out-of-range indices are clamped, an empty range gives the empty sequence.
SliceIndex(i, n) == IF i < 0 THEN Max(i + n, 0) ELSE Min(i, n)

PySlice(s, lo, hi) == SubSeq(s, SliceIndex(lo, Len(s)) + 1, SliceIndex(hi, Len(s)))

\* s[:n]
PyPrefix(s, n) == PySlice(s, 0, n)

RECURSIVE lstrip(_)
lstrip(s) == IF s # <<>> /\ IsSpace(Head(s)) THEN lstrip(Tail(s)) ELSE s

RECURSIVE rstrip(_)
rstrip(s) == IF s # <<>> /\ IsSpace(s[Len(s)]) THEN rstrip(SubSeq(s, 1, Len(s) - 1)) ELSE s

\* str.strip()
strip(s) == rstrip(lstrip(s))

Digits == <<"0", "1", "2", "3", "4", "5", "6", "7", "8", "9">>

RECURSIVE NatStr(_)
NatStr(n) == IF n < 10 THEN <<Digits[n + 1]>> ELSE NatStr(n \div 10) \o <<Digits[(n % 10) + 1]>>

\* str(n) for an int
str(n) == IF n < 0 THEN <<"-">> \o NatStr(0 - n) ELSE NatStr(n)

\* hashlib.sha1(base).hexdigest(): a digest that is a function of the hashed
\* string alone; distinct strings get distinct digests (collisions aside).
sha1(base) == [sha1 |-> base]

(***************************************************************************)
(* State.                                                                  *)
(***************************************************************************)
VARIABLES
    \* ---- Chunker ----
    text,           \* the document text handed to split
    source_id,      \* source_metadata.get("source_id", "")
    chunk_size,     \* self.chunk_size
    overlap,        \* self.overlap
    c_pc,           \* "idle" | "loop" | "returned": where the current call of split is
    start,          \* local start
    chunks,         \* local chunks (the list being built, then returned)
    iter,           \* loop iterations of the current call so far
    windows,        \* for each fragment of chunks, the iteration that emitted it
    results,        \* the lists returned by the calls of split so far, in order
    \* ---- ReRanker / select_context / RAGPipeline ----
    retrieved,      \* retrieved_chunks: the raw candidates, in vector order
    config,         \* ReRankerConfig
    op,             \* "none" | "re_rank" | "select_context" | "answer": the call made
    policy,         \* select_context's policy argument
    scorer_calls,   \* how many times scorer.score ran
    scorer_input,   \* the chunks handed to scorer.score
    scored,         \* what scorer.score returned
    reranked,       \* what ReRanker.re_rank returned
    selected,       \* select_context's result: [chunks, confidence]
    outcome,        \* RAGPipeline.answer's outcome
    llm_calls,      \* how many times llm.generate ran
    faulty,         \* the collaborator that raises when it is called ("none": none does)
    raised,         \* the error that reached the caller of the call made ("none": it returned)
    \* ---- VectorStore / build_index ----
    collection,     \* the Chroma collection: a map from id to its row [embedding, metadata, document]
    vs_error,       \* the error the last upsert raised ("none": it returned)
    upsert_call,    \* the last call of upsert: its arguments and the collection before it
    snapshots,      \* the collection as it was after each finished build run, in order
    \* ---- the components around the core, one record each ----
    id_call,        \* two calls of Chunker._build_chunk_id: their arguments and results
    controller,     \* ChatController.send_message: the request and what came of it
    bucket,         \* a TokenBucket, the clock, and its last consume call
    cache,          \* the ResponseCache's Redis keys, and its last call
    memory          \* RedisMemory's Redis lists and expiries, and the calls in progress

chunkVars == <<text, source_id, chunk_size, overlap, c_pc, start, chunks, iter, windows, results>>

rankVars == <<retrieved, config, op, policy, scorer_calls, scorer_input, scored, reranked, selected, outcome, llm_calls, faulty, raised>>

indexVars == <<collection, vs_error, upsert_call, snapshots>>

coreVars == <<chunkVars, rankVars, indexVars>>

auxVars == <<id_call, controller, bucket, cache, memory>>

vars == <<coreVars, auxVars>>

(***************************************************************************)
(* Chunker (chunk.py).                                                     *)
(***************************************************************************)
StrategyName == "char_window_800_overlap_100"

RECURSIVE SeqsUpTo(_, _)
SeqsUpTo(S, n) ==
    IF n = 0 THEN {<<>>}
    ELSE LET shorter == SeqsUpTo(S, n - 1)
         IN  shorter \cup {Append(s, c) : s \in shorter, c \in S}

Texts == SeqsUpTo(Chars, MaxTextLen)

SourceIds == {<<>>, <<"d">>}

\* Chunker.__init__: assert overlap < chunk_size
ChunkerConfigs == {c \in (1..MaxChunkSize) \X (0..MaxChunkSize) : c[2] < c[1]}

\* "not text or not text.strip()"
IsBlank(t) == t = <<>> \/ strip(t) = <<>>

_build_chunk_id(chunk_text, st, sid) == sha1(sid \o str(st) \o PyPrefix(chunk_text, PrefixLen))

\* end = min(start + self.chunk_size, text_length)
WindowEnd(st) == Min(st + chunk_size, Len(text))

\* Variant of NextStart: the overlap is forgotten ("start = end")
NextStartNoOverlap(end) == end

\* start = end - self.overlap
NextStart(end) == end - overlap

\* Variant of NewChunkList: the list is kept from one call to the next (as a
\* list held by the Chunker, or a mutable default, would be)
KeptChunkList(prev) == prev

\* chunks: List[Chunk] = []   (prev: what the variable held before the call)
NewChunkList(prev) == <<>>

MakeChunk(chunk_text, st, end) ==
    [chunk_id |-> _build_chunk_id(chunk_text, st, source_id),
     text |-> chunk_text,
     chunk_start |-> st,
     chunk_end |-> end,
     chunk_strategy |-> StrategyName]

InitChunkerIdle ==
    /\ c_pc = "idle"
    /\ start = 0
    /\ chunks = <<>>
    /\ iter = 0
    /\ windows = <<>>
    /\ results = <<>>

InitChunker ==
    /\ text \in Texts
    /\ source_id \in SourceIds
    /\ \E c \in ChunkerConfigs : chunk_size = c[1] /\ overlap = c[2]
    /\ InitChunkerIdle

\* split on an empty or whitespace-only text: return []
SplitBlank ==
    /\ c_pc \in {"idle", "returned"}
    /\ Len(results) < MaxCalls
    /\ IsBlank(text)
    /\ c_pc' = "returned"
    /\ chunks' = <<>>
    /\ windows' = <<>>
    /\ results' = Append(results, <<>>)
    /\ UNCHANGED <<text, source_id, chunk_size, overlap, start, iter>>
    /\ UNCHANGED <<rankVars, indexVars, auxVars>>

\* split enters its loop: chunks = [], start = 0
SplitEnter ==
    /\ c_pc \in {"idle", "returned"}
    /\ Len(results) < MaxCalls
    /\ ~IsBlank(text)
    /\ c_pc' = "loop"
    /\ chunks' = NewChunkList(chunks)
    /\ windows' = <<>>
    /\ start' = 0
    /\ iter' = 0
    /\ UNCHANGED <<text, source_id, chunk_size, overlap, results>>
    /\ UNCHANGED <<rankVars, indexVars, auxVars>>

\* one iteration of "while start < text_length"
\* Variant of KeepsWindow: the "if chunk_text:" test is missing
KeepsEveryWindow(chunk_text) == TRUE

\* if chunk_text:
KeepsWindow(chunk_text) == chunk_text # <<>>

SplitIterate ==
    /\ c_pc = "loop"
    /\ start < Len(text)
    /\ iter < MaxIter
    /\ LET end == WindowEnd(start)
           chunk_text == strip(PySlice(text, start, end))
       IN  /\ IF KeepsWindow(chunk_text)
              THEN /\ chunks' = Append(chunks, MakeChunk(chunk_text, start, end))
                   /\ windows' = Append(windows, iter + 1)
              ELSE UNCHANGED <<chunks, windows>>
           /\ start' = NextStart(end)
    /\ iter' = iter + 1
    /\ UNCHANGED <<text, source_id, chunk_size, overlap, c_pc, results>>
    /\ UNCHANGED <<rankVars, indexVars, auxVars>>

\* the loop exits: return chunks
SplitReturn ==
    /\ c_pc = "loop"
    /\ ~(start < Len(text))
    /\ c_pc' = "returned"
    /\ results' = Append(results, chunks)
    /\ UNCHANGED <<text, source_id, chunk_size, overlap, start, chunks, iter, windows>>
    /\ UNCHANGED <<rankVars, indexVars, auxVars>>

\* No call made yet on the components around the core
InitIdCallIdle == id_call = [made |-> FALSE]

InitControllerIdle == controller = [pc |-> "idle"]

InitBucketIdle == bucket = [made |-> FALSE]

InitCacheIdle == cache = [made |-> FALSE]

InitMemoryIdle == memory = [made |-> FALSE]

InitAuxIdle ==
    /\ InitIdCallIdle
    /\ InitControllerIdle
    /\ InitBucketIdle
    /\ InitCacheIdle
    /\ InitMemoryIdle

InitIndexIdle ==
    /\ collection = [id \in {} |-> <<>>]
    /\ vs_error = "none"
    /\ upsert_call = [made |-> FALSE]
    /\ snapshots = <<>>

InitRankIdle ==
    /\ retrieved = <<>>
    /\ config = [top_k_input |-> 0, top_n_output |-> 0, min_score |-> 0,
                 blend_with_vector_score |-> FALSE, blend_alpha |-> 1]
    /\ op = "none"
    /\ policy = "hybrid"
    /\ scorer_calls = 0
    /\ scorer_input = <<>>
    /\ scored = <<>>
    /\ reranked = <<>>
    /\ selected = [chunks |-> <<>>, confidence |-> "none"]
    /\ outcome = [kind |-> "none"]
    /\ llm_calls = 0
    /\ faulty = "none"
    /\ raised = "none"

NextChunker ==
    \/ SplitBlank
    \/ SplitEnter
    \/ SplitIterate
    \/ SplitReturn

InitChunkerSpec == InitChunker /\ InitRankIdle /\ InitIndexIdle /\ InitAuxIdle

SpecChunker == InitChunkerSpec /\ [][NextChunker]_vars

(***************************************************************************)
(* ReRanker (re_ranker/re_ranker.py, config.py, interface.py).             *)
(*                                                                         *)
(* Scores are integers: a rerank_score or vector_score s stands for the    *)
(* float s, blend_alpha a for a / AlphaUnit. Sizes are non-negative.       *)
(***************************************************************************)
Scores == 0..MaxScore

\* RetrievedChunk: chunk_id, vector_score (text and metadata are carried along
\* unread by these operations). The i-th candidate of a query has chunk_id i.
RetrievedLists ==
    UNION {{[i \in 1..n |-> [chunk_id |-> i, vector_score |-> v[i]]] : v \in [1..n -> Scores]} : n \in 0..MaxCands}

\* (blend_with_vector_score, blend_alpha). Without blending blend_alpha is
\* not read: it keeps one value.
BlendSettings == {<<FALSE, 1>>} \cup {<<TRUE, a>> : a \in 0..AlphaUnit}

\* ReRankerConfig
Configs ==
    {[top_k_input |-> k, top_n_output |-> n, min_score |-> m,
      blend_with_vector_score |-> b[1], blend_alpha |-> b[2]] :
        k \in 0..MaxCands, n \in 0..MaxCands, m \in 0..(MaxScore + 1), b \in BlendSettings}

Policies == {"fail_closed", "fail_open", "hybrid"}

\* ReRankedChunk(chunk_id=..., vector_score=..., rerank_score=score)
ReRankedChunk(c, score) == [chunk_id |-> c.chunk_id, vector_score |-> c.vector_score, rerank_score |-> score]

\* What a ReRankScorer may return for the chunks it is handed: one ranked
\* chunk per input in input order with any score (CrossEncoderReRanker,
\* MockScorer), or nothing at all (the tests' EmptyScorer).
ScorerOutputs(cands) ==
    {<<>>} \cup {[i \in 1..Len(cands) |-> ReRankedChunk(cands[i], f[i])] : f \in [1..Len(cands) -> Scores]}

\* Variant of Cap: every candidate is scored
CapAll(chs, cfg) == chs

\* candidates = chunks[: self.config.top_k_input]
Cap(chs, cfg) == PyPrefix(chs, cfg.top_k_input)

\* The blended score, whether or not blending is configured
FinalScoreAlways(c, cfg) == cfg.blend_alpha * c.rerank_score + (AlphaUnit - cfg.blend_alpha) * c.vector_score

\* ReRanker._final_score, times AlphaUnit
_final_score(c, cfg) ==
    IF ~cfg.blend_with_vector_score
    THEN AlphaUnit * c.rerank_score
    ELSE cfg.blend_alpha * c.rerank_score + (AlphaUnit - cfg.blend_alpha) * c.vector_score

\* Variant of _apply_gating: the gate reads the blended score
GateOnFinalScore(chs, cfg) == SelectSeq(chs, LAMBDA c : FinalScoreAlways(c, cfg) >= AlphaUnit * cfg.min_score)

\* ReRanker._apply_gating
_apply_gating(chs, cfg) == SelectSeq(chs, LAMBDA c : c.rerank_score >= cfg.min_score)

\* Insertion of c after every element whose key is >= its own
RECURSIVE InsertDesc(_, _, _)
InsertDesc(sorted, c, cfg) ==
    IF sorted = <<>> THEN <<c>>
    ELSE IF _final_score(Head(sorted), cfg) >= _final_score(c, cfg)
         THEN <<Head(sorted)>> \o InsertDesc(Tail(sorted), c, cfg)
         ELSE <<c>> \o sorted

RECURSIVE SortInserting(_, _, _)
SortInserting(done, rest, cfg) ==
    IF rest = <<>> THEN done ELSE SortInserting(InsertDesc(done, Head(rest), cfg), Tail(rest), cfg)

Reverse(s) == [i \in 1..Len(s) |-> s[Len(s) + 1 - i]]

\* Variant of SortedByFinalScore: equal keys come out in reverse order
SortedTiesReversed(chs, cfg) == SortInserting(<<>>, Reverse(chs), cfg)

\* Variant of SortedByFinalScore: the sort is missing
KeptInScorerOrder(chs, cfg) == chs

\* Variant of SortedByFinalScore: reverse=True is missing
SortedAscending(chs, cfg) == Reverse(SortInserting(<<>>, chs, cfg))

\* sorted(gated_chunks, key=self._final_score, reverse=True): a stable sort,
\* equal keys keep their order
SortedByFinalScore(chs, cfg) == SortInserting(<<>>, chs, cfg)

\* Variant of Truncate: the input size is used for the output size
TruncateToInput(ranked, cfg) == PyPrefix(ranked, cfg.top_k_input)

\* ranked_chunks[: self.config.top_n_output]
Truncate(ranked, cfg) == PyPrefix(ranked, cfg.top_n_output)

\* Variant of RankScored: when the gate leaves nothing, the best scored
\* chunks are handed back all the same
RankScoredPadded(scored_chunks, cfg) ==
    LET gated_chunks == _apply_gating(scored_chunks, cfg)
    IN  IF gated_chunks = <<>> THEN Truncate(SortedByFinalScore(scored_chunks, cfg), cfg)
        ELSE Truncate(SortedByFinalScore(gated_chunks, cfg), cfg)

\* re_rank from step 3 on: gate, sort, truncate what the scorer returned
RankScored(scored_chunks, cfg) ==
    LET gated_chunks == _apply_gating(scored_chunks, cfg)
    IN  IF gated_chunks = <<>> THEN <<>>
        ELSE Truncate(SortedByFinalScore(gated_chunks, cfg), cfg)

\* Variant of re_rank: the "if not chunks: return []" guard is missing
re_rank_unguarded(chs) ==
    IF faulty' = "scorer"
    THEN /\ scorer_calls' = scorer_calls + 1
         /\ scorer_input' = Cap(chs, config)
         /\ raised' = "ScorerError"
         /\ UNCHANGED <<scored, reranked>>
    ELSE \E out \in ScorerOutputs(Cap(chs, config)) :
            /\ scorer_calls' = scorer_calls + 1
            /\ scorer_input' = Cap(chs, config)
            /\ scored' = out
            /\ reranked' = RankScored(out, config)
            /\ raised' = "none"

\* ReRanker.re_rank(query, chs), as an action on the variables that record
\* it. No statement of re_rank is inside a try: an error of scorer.score
\* leaves re_rank at once, as it is.
re_rank(chs) ==
    IF chs = <<>>
    THEN /\ reranked' = <<>>
         /\ raised' = "none"
         /\ UNCHANGED <<scorer_calls, scorer_input, scored>>
    ELSE IF faulty' = "scorer"
    THEN /\ scorer_calls' = scorer_calls + 1
         /\ scorer_input' = Cap(chs, config)
         /\ raised' = "ScorerError"
         /\ UNCHANGED <<scored, reranked>>
    ELSE \E out \in ScorerOutputs(Cap(chs, config)) :
            /\ scorer_calls' = scorer_calls + 1
            /\ scorer_input' = Cap(chs, config)
            /\ scored' = out
            /\ reranked' = RankScored(out, config)
            /\ raised' = "none"

(***************************************************************************)
(* select_context (re_ranker/orchestrator.py).                             *)
(***************************************************************************)
\* Variant of select_context: the fallback is labelled "high"
FallbackLabelledHigh(rr, chs, pol, cfg) ==
    IF rr # <<>> THEN [chunks |-> rr, confidence |-> "high"]
    ELSE IF pol = "fail_closed" THEN [chunks |-> <<>>, confidence |-> "none"]
    ELSE [chunks |-> PyPrefix(chs, cfg.top_n_output), confidence |-> "high"]

\* Variant of select_context: the fail_closed branch is missing
FailClosedFallsBack(rr, chs, pol, cfg) ==
    IF rr # <<>> THEN [chunks |-> rr, confidence |-> "high"]
    ELSE [chunks |-> PyPrefix(chs, cfg.top_n_output), confidence |-> "low"]

\* Variant of select_context: the fallback is cut to top_k_input
FallbackOfInputSize(rr, chs, pol, cfg) ==
    IF rr # <<>> THEN [chunks |-> rr, confidence |-> "high"]
    ELSE IF pol = "fail_closed" THEN [chunks |-> <<>>, confidence |-> "none"]
    ELSE [chunks |-> PyPrefix(chs, cfg.top_k_input), confidence |-> "low"]

\* the decision taken once re_rank has returned rr
select_context(rr, chs, pol, cfg) ==
    IF rr # <<>> THEN [chunks |-> rr, confidence |-> "high"]
    ELSE IF pol = "fail_closed" THEN [chunks |-> <<>>, confidence |-> "none"]
    ELSE [chunks |-> PyPrefix(chs, cfg.top_n_output), confidence |-> "low"]

InitRank ==
    /\ retrieved \in RetrievedLists
    /\ config \in Configs
    /\ op = "none"
    /\ policy = "hybrid"
    /\ scorer_calls = 0
    /\ scorer_input = <<>>
    /\ scored = <<>>
    /\ reranked = <<>>
    /\ selected = [chunks |-> <<>>, confidence |-> "none"]
    /\ outcome = [kind |-> "none"]
    /\ llm_calls = 0
    /\ faulty = "none"
    /\ raised = "none"

\* reranker.re_rank(query, retrieved_chunks), called on its own
ReRankCall ==
    /\ op = "none"
    /\ op' = "re_rank"
    /\ faulty' \in {"none", "scorer"}
    /\ re_rank(retrieved)
    /\ UNCHANGED <<retrieved, config, policy, selected, outcome, llm_calls>>
    /\ UNCHANGED <<chunkVars, indexVars, auxVars>>

\* select_context(query, retrieved_chunks, reranker, policy)
SelectContextCall ==
    /\ op = "none"
    /\ op' = "select_context"
    /\ policy' \in Policies
    /\ faulty' \in {"none", "scorer"}
    /\ re_rank(retrieved)
    /\ selected' = IF raised' = "none" THEN select_context(reranked', retrieved, policy', config) ELSE selected
    /\ UNCHANGED <<retrieved, config, outcome, llm_calls>>
    /\ UNCHANGED <<chunkVars, indexVars, auxVars>>

(***************************************************************************)
(* RAGPipeline.answer (retrieval.py).                                      *)
(*                                                                         *)
(* Its first statement reads self.reranker_config.initial_top_k, and       *)
(* __init__ (lines 23-43) sets embedder, vector_store, reranker,           *)
(* prompt_builder and llm only: the read raises AttributeError before      *)
(* anything is retrieved, selected or generated.                           *)
(***************************************************************************)
\* The external collaborators answer is written to call, in call order
Collaborators == {"embedder", "index", "scorer", "llm"}

AnswerCall ==
    /\ op = "none"
    /\ op' = "answer"
    /\ faulty' \in Collaborators \cup {"none"}
    /\ outcome' = [kind |-> "raised", error |-> "AttributeError"]
    /\ raised' = "AttributeError"
    /\ UNCHANGED <<retrieved, config, policy, scorer_calls, scorer_input, scored, reranked, selected, llm_calls>>
    /\ UNCHANGED <<chunkVars, indexVars, auxVars>>

InitChunkerFixed == text = <<>> /\ source_id = <<>> /\ chunk_size = 1 /\ overlap = 0 /\ InitChunkerIdle

Init == InitRank /\ InitChunkerFixed /\ InitIndexIdle /\ InitAuxIdle

Next ==
    \/ ReRankCall
    \/ SelectContextCall
    \/ AnswerCall

Spec == Init /\ [][Next]_vars

(***************************************************************************)
(* VectorStore (vector_store.py) and build_index (index_builder.py).       *)
(*                                                                         *)
(* The Chroma collection is a map from id to a row (embedding, metadata,   *)
(* document); its upsert writes one row per id, replacing the row of an id *)
(* that is already there.  An embedding is opaque to the store: one value. *)
(* Ids within one batch are distinct.                                      *)
(***************************************************************************)
Ids == 1..MaxBatch

Embedding == <<0>>

Documents == {<<"a">>, <<"a", "a">>}

\* Lists of distinct ids, at most MaxBatch long
IdLists == {s \in SeqsUpTo(Ids, MaxBatch) : \A i, j \in 1..Len(s) : s[i] = s[j] => i = j}

\* Lists of embeddings, of any length up to MaxBatch + 1
EmbeddingLists == {[i \in 1..n |-> Embedding] : n \in 0..(MaxBatch + 1)}

RowIds(ids) == {ids[i] : i \in 1..Len(ids)}

RowAt(ids, embeddings, metadatas, documents, id) ==
    LET i == CHOOSE k \in 1..Len(ids) : ids[k] = id
    IN  [embedding |-> embeddings[i], metadata |-> metadatas[i], document |-> documents[i]]

\* Variant of CollectionUpsert: an id that is already there is removed
\* instead of rewritten
CollectionToggle(coll, ids, embeddings, metadatas, documents) ==
    [id \in ((DOMAIN coll) \ RowIds(ids)) \cup (RowIds(ids) \ DOMAIN coll) |->
        IF id \in RowIds(ids) THEN RowAt(ids, embeddings, metadatas, documents, id) ELSE coll[id]]

\* self.collection.upsert(ids=..., embeddings=..., metadatas=..., documents=...)
CollectionUpsert(coll, ids, embeddings, metadatas, documents) ==
    [id \in (DOMAIN coll) \cup RowIds(ids) |->
        IF id \in RowIds(ids) THEN RowAt(ids, embeddings, metadatas, documents, id) ELSE coll[id]]

\* Variant of upsert: the length test is missing, the rows that have an
\* embedding are written
upsert_unchecked(coll, ids, embeddings, metadatas, documents) ==
    LET n == Min(Len(ids), Len(embeddings))
    IN  [error |-> "none",
         collection |-> CollectionUpsert(coll, SubSeq(ids, 1, n), embeddings, metadatas, documents)]

\* VectorStore.upsert: what it raises and the collection it leaves
upsert(coll, ids, embeddings, metadatas, documents) ==
    IF Len(ids) # Len(embeddings)
    THEN [error |-> "ValueError", collection |-> coll]
    ELSE [error |-> "none",
          collection |-> CollectionUpsert(coll, ids, embeddings, metadatas, documents)]

\* One call of VectorStore.upsert, with any arguments
UpsertCall ==
    \E ids \in IdLists, embeddings \in EmbeddingLists :
    \E documents \in [1..Len(ids) -> Documents] :
        LET metadatas == [i \in 1..Len(ids) |-> <<>>]
            res == upsert(collection, ids, embeddings, metadatas, documents)
        IN  /\ upsert_call' = [made |-> TRUE, ids |-> ids, embeddings |-> embeddings,
                               documents |-> documents, before |-> collection]
            /\ vs_error' = res.error
            /\ collection' = res.collection
            /\ UNCHANGED snapshots
            /\ UNCHANGED <<chunkVars, rankVars, auxVars>>

InitStore == InitIndexIdle /\ InitChunkerFixed /\ InitRankIdle /\ InitAuxIdle

NextStore == UpsertCall

SpecStore == InitStore /\ [][NextStore]_vars

\* embedder.embed_documents(texts)
embed_documents(texts) == [i \in 1..Len(texts) |-> Embedding]

\* build_index from line 77 on, for the chunks of one chunking run that has
\* not been stored yet: embed the texts, upsert ids, embeddings, metadata and
\* texts
BuildUpsert ==
    /\ c_pc = "returned"
    /\ Len(snapshots) < Len(results)
    /\ LET all_chunks == results[Len(snapshots) + 1]
           texts == [i \in 1..Len(all_chunks) |-> all_chunks[i].text]
           embeddings == embed_documents(texts)
           ids == [i \in 1..Len(all_chunks) |-> all_chunks[i].chunk_id]
           metadatas == [i \in 1..Len(all_chunks) |->
                            [chunk_start |-> all_chunks[i].chunk_start,
                             chunk_end |-> all_chunks[i].chunk_end,
                             chunk_strategy |-> all_chunks[i].chunk_strategy,
                             source_id |-> source_id,
                             section |-> "text"]]
           res == upsert(collection, ids, embeddings, metadatas, texts)
       IN  /\ upsert_call' = [made |-> TRUE, ids |-> ids, embeddings |-> embeddings,
                              documents |-> texts, before |-> collection]
           /\ vs_error' = res.error
           /\ collection' = res.collection
           /\ snapshots' = Append(snapshots, res.collection)
    /\ UNCHANGED <<chunkVars, rankVars, auxVars>>

NextIndex ==
    \/ SplitBlank
    \/ SplitEnter
    \/ SplitIterate
    \/ SplitReturn
    \/ BuildUpsert

SpecIndex == InitChunkerSpec /\ [][NextIndex]_vars

(***************************************************************************)
(* The relevance scorers (re_ranker/cross_encoder.py, the tests' mocks.py) *)
(* and re_rank run with them.                                              *)
(*                                                                         *)
(* Chunks carry every field of RetrievedChunk here.  The i-th candidate    *)
(* has chunk_id i, a text of i characters and a metadata naming i.  The    *)
(* transformer is a capability: for each (query, text) pair it gives one   *)
(* logit, any number.  batch_size is positive.                             *)
(***************************************************************************)
FullRetrievedLists ==
    UNION {{[i \in 1..n |-> [chunk_id |-> i, text |-> [k \in 1..i |-> "a"],
                             metadata |-> [chunk_start |-> i], vector_score |-> v[i]]] :
                v \in [1..n -> Scores]} : n \in 0..MaxCands}

\* ReRankerConfig with batch_size, without blending
ScorerConfigs ==
    {[top_k_input |-> k, top_n_output |-> n, min_score |-> m,
      blend_with_vector_score |-> FALSE, blend_alpha |-> 1, batch_size |-> b] :
        k \in 0..MaxCands, n \in 0..MaxCands, m \in 0..(MaxScore + 1), b \in 1..MaxBatch}

\* Variant of ScoredChunk: the relevance score is written over the vector
\* score as well
ScoredChunkOverwritingVectorScore(chunk, score) ==
    [chunk_id |-> chunk.chunk_id, text |-> chunk.text, metadata |-> chunk.metadata,
     vector_score |-> score, rerank_score |-> score]

\* ReRankedChunk(chunk_id=chunk.chunk_id, text=chunk.text,
\*               metadata=chunk.metadata, vector_score=chunk.vector_score,
\*               rerank_score=score)
ScoredChunk(chunk, score) ==
    [chunk_id |-> chunk.chunk_id, text |-> chunk.text, metadata |-> chunk.metadata,
     vector_score |-> chunk.vector_score, rerank_score |-> score]

\* CrossEncoderReRanker._batch_score from pair i on: the logits of
\* pairs[i : i + batch_size], then those of the following batches
RECURSIVE BatchesFrom(_, _, _)
BatchesFrom(logits, i, batch_size) ==
    IF i > Len(logits) THEN <<>>
    ELSE SubSeq(logits, i, Min(i + batch_size - 1, Len(logits))) \o
         BatchesFrom(logits, i + batch_size, batch_size)

_batch_score(logits, batch_size) == BatchesFrom(logits, 1, batch_size)

\* zip(chunks, scores) and the comprehension over it
ZipScored(chs, scores) ==
    [i \in 1..Min(Len(chs), Len(scores)) |-> ScoredChunk(chs[i], scores[i])]

\* CrossEncoderReRanker.score, the transformer giving logits[i] for pair i
CrossEncoderScore(chs, logits, batch_size) ==
    IF chs = <<>> THEN <<>>
    ELSE ZipScored(chs, _batch_score(logits, batch_size))

\* MockScorer.score: rerank_score = i * 0.1 over enumerate(chunks), in tenths
MockScore(chs) == [i \in 1..Len(chs) |-> ScoredChunk(chs[i], i - 1)]

InitScorer ==
    /\ retrieved \in FullRetrievedLists
    /\ config \in ScorerConfigs
    /\ op = "none"
    /\ policy = "hybrid"
    /\ scorer_calls = 0
    /\ scorer_input = <<>>
    /\ scored = <<>>
    /\ reranked = <<>>
    /\ selected = [chunks |-> <<>>, confidence |-> "none"]
    /\ outcome = [kind |-> "none"]
    /\ llm_calls = 0
    /\ faulty = "none"
    /\ raised = "none"

\* CrossEncoderReRanker.score(query, chunks)
CrossEncoderScoreCall ==
    /\ op = "none"
    /\ op' = "cross_encoder_score"
    /\ \E logits \in [1..Len(retrieved) -> Scores] :
          scored' = CrossEncoderScore(retrieved, logits, config.batch_size)
    /\ scorer_input' = retrieved
    /\ scorer_calls' = scorer_calls + 1
    /\ UNCHANGED <<retrieved, config, policy, reranked, selected, outcome, llm_calls, faulty, raised>>
    /\ UNCHANGED <<chunkVars, indexVars, auxVars>>

\* MockScorer.score(query, chunks)
MockScoreCall ==
    /\ op = "none"
    /\ op' = "mock_score"
    /\ scored' = MockScore(retrieved)
    /\ scorer_input' = retrieved
    /\ scorer_calls' = scorer_calls + 1
    /\ UNCHANGED <<retrieved, config, policy, reranked, selected, outcome, llm_calls, faulty, raised>>
    /\ UNCHANGED <<chunkVars, indexVars, auxVars>>

\* ReRanker.re_rank(query, chunks) with one of the two scorers
ReRankWithScorerCall ==
    /\ op = "none"
    /\ op' = "re_rank_scored"
    /\ IF retrieved = <<>>
       THEN /\ reranked' = <<>>
            /\ UNCHANGED <<scorer_calls, scorer_input, scored>>
       ELSE LET candidates == Cap(retrieved, config)
            IN  /\ \/ \E logits \in [1..Len(candidates) -> Scores] :
                         scored' = CrossEncoderScore(candidates, logits, config.batch_size)
                   \/ scored' = MockScore(candidates)
                /\ scorer_input' = candidates
                /\ scorer_calls' = scorer_calls + 1
                /\ reranked' = RankScored(scored', config)
    /\ UNCHANGED <<retrieved, config, policy, selected, outcome, llm_calls, faulty, raised>>
    /\ UNCHANGED <<chunkVars, indexVars, auxVars>>

NextScorer ==
    \/ CrossEncoderScoreCall
    \/ MockScoreCall
    \/ ReRankWithScorerCall

InitScorerSpec == InitScorer /\ InitChunkerFixed /\ InitIndexIdle /\ InitAuxIdle

SpecScorer == InitScorerSpec /\ [][NextScorer]_vars

(***************************************************************************)
(* Chunker._build_chunk_id on its own (chunk.py), called on two fragments. *)
(* Source ids and texts may hold digits, as file names and documents do.   *)
(***************************************************************************)
IdSourceIds == {<<>>, <<"d">>, <<"d", "1">>}

IdStarts == 0..MaxStart

\* A text of PrefixLen characters
FullPrefix == [i \in 1..PrefixLen |-> "a"]

\* Stripped, non-empty chunk texts: short ones, and ones that reach beyond
\* the first PrefixLen characters
IdTexts ==
    (SeqsUpTo({"a", "0"}, 2) \ {<<>>}) \cup {FullPrefix, FullPrefix \o <<"a">>, FullPrefix \o <<"0">>}

IdArgs == [source_id : IdSourceIds, start : IdStarts, chunk_text : IdTexts]

\* self._build_chunk_id(chunk_text=..., start=..., source_metadata=...) for
\* two fragments
BuildChunkIdCalls ==
    /\ ~id_call.made
    /\ \E a \in IdArgs, b \in IdArgs :
          id_call' = [made |-> TRUE, first |-> a, second |-> b,
                      first_id |-> _build_chunk_id(a.chunk_text, a.start, a.source_id),
                      second_id |-> _build_chunk_id(b.chunk_text, b.start, b.source_id)]
    /\ UNCHANGED <<controller, bucket, cache, memory>>
    /\ UNCHANGED coreVars

NextChunkId == BuildChunkIdCalls

InitChunkId == InitAuxIdle /\ InitChunkerFixed /\ InitRankIdle /\ InitIndexIdle

SpecChunkId == InitChunkId /\ [][NextChunkId]_vars

(***************************************************************************)
(* ChatController.send_message (api/controller.py).                        *)
(*                                                                         *)
(* The whole body sits in one try statement with two handlers, "except     *)
(* ValueError" and then "except Exception".  An exception is a record      *)
(* [type, ...]; HTTPException, ValueError and RuntimeError are all         *)
(* subclasses of Exception, and only ValueError is a ValueError.           *)
(* process_chat_message is a capability: it returns a dict (with or        *)
(* without "reply"), returns a response object, or raises.                 *)
(***************************************************************************)
HTTP_400_BAD_REQUEST == 400

HTTP_500_INTERNAL_SERVER_ERROR == 500

HTTPException(code, det) == [type |-> "HTTPException", status_code |-> code, detail |-> det]

\* str(e)
StrOfException(e) ==
    IF e.type = "HTTPException" THEN <<e.status_code, ": ", e.detail>> ELSE e.message

SessionIds == {"None", "s1"}

\* What process_chat_message does when it is called
BusinessOutcomes ==
    {[kind |-> "dict", has_reply |-> TRUE], [kind |-> "dict", has_reply |-> FALSE],
     [kind |-> "response"],
     [kind |-> "raises", exc |-> [type |-> "ValueError", message |-> "bad value"]],
     [kind |-> "raises", exc |-> [type |-> "RuntimeError", message |-> "boom"]]}

\* The body of the try statement: what it returns or raises, and whether it
\* called process_chat_message
SendMessageTry(message, session_id, business) ==
    IF message = <<>> \/ strip(message) = <<>>
    THEN [kind |-> "raise", called |-> FALSE,
          exc |-> HTTPException(HTTP_400_BAD_REQUEST, "Message cannot be empty")]
    ELSE IF business.kind = "raises"
    THEN [kind |-> "raise", called |-> TRUE, exc |-> business.exc]
    ELSE IF business.kind = "dict"
    THEN [kind |-> "return", called |-> TRUE,
          value |-> [reply |-> IF business.has_reply THEN "reply" ELSE "I'm sorry, I couldn't process that.",
                     session_id |-> session_id]]
    ELSE [kind |-> "return", called |-> TRUE, value |-> [reply |-> "reply", session_id |-> session_id]]

\* The handlers: "except ValueError as e", then "except Exception as e"
SendMessageExcept(tried) ==
    IF tried.kind = "return" THEN tried
    ELSE IF tried.exc.type = "ValueError"
    THEN [kind |-> "raise", called |-> tried.called,
          exc |-> HTTPException(HTTP_400_BAD_REQUEST, StrOfException(tried.exc))]
    ELSE [kind |-> "raise", called |-> tried.called,
          exc |-> HTTPException(HTTP_500_INTERNAL_SERVER_ERROR,
                                <<"Internal server error: ", StrOfException(tried.exc)>>)]

\* await ChatController.send_message(request)
SendMessage ==
    \E message \in Texts, session_id \in SessionIds, business \in BusinessOutcomes :
        LET outcome_ == SendMessageExcept(SendMessageTry(message, session_id, business))
        IN  controller' = [pc |-> "done", message |-> message, session_id |-> session_id,
                           called |-> outcome_.called, outcome |-> outcome_]
    /\ UNCHANGED <<id_call, bucket, cache, memory>>
    /\ UNCHANGED coreVars

NextController == SendMessage

InitController == InitAuxIdle /\ InitChunkerFixed /\ InitRankIdle /\ InitIndexIdle

SpecController == InitController /\ [][NextController]_vars

(***************************************************************************)
(* TokenBucket (api/ratelimiter.py).                                       *)
(*                                                                         *)
(* time.time() is the field now, which only the clock moves, and never     *)
(* backwards.  Token counts and the refill rate are in 1/TokenUnit of a    *)
(* token (per tick).  capacity and refill_rate are non-negative.           *)
(***************************************************************************)
\* TokenBucket.__init__(capacity, refill_rate) at time now
NewBucket(capacity, refill_rate, now) ==
    [made |-> TRUE, capacity |-> capacity, refill_rate |-> refill_rate,
     tokens |-> capacity, last_refill_timestamp |-> now, now |-> now,
     last |-> [op |-> "init"]]

\* Variant of _refill: the min() with capacity is missing
RefillUncapped(b) ==
    LET elapsed == b.now - b.last_refill_timestamp
        added_tokens == elapsed * b.refill_rate
    IN  [b EXCEPT !.tokens = b.tokens + added_tokens, !.last_refill_timestamp = b.now]

\* TokenBucket._refill
_refill(b) ==
    LET elapsed == b.now - b.last_refill_timestamp
        added_tokens == elapsed * b.refill_rate
    IN  [b EXCEPT !.tokens = Min(b.capacity, b.tokens + added_tokens),
                  !.last_refill_timestamp = b.now]

\* Variant of consume: a denied request is charged what is there
ConsumeChargingDenied(b, n) ==
    LET r == _refill(b)
    IN  IF r.tokens >= n
        THEN [bucket |-> [r EXCEPT !.tokens = r.tokens - n], result |-> TRUE]
        ELSE [bucket |-> [r EXCEPT !.tokens = 0], result |-> FALSE]

\* TokenBucket.consume(tokens=n): the bucket it leaves and what it returns
consume(b, n) ==
    LET r == _refill(b)
    IN  IF r.tokens >= n
        THEN [bucket |-> [r EXCEPT !.tokens = r.tokens - n], result |-> TRUE]
        ELSE [bucket |-> r, result |-> FALSE]

InitBucket ==
    \E capacity \in 0..MaxCapacity, refill_rate \in 0..MaxRate :
        bucket = NewBucket(capacity * TokenUnit, refill_rate, 0)

\* The clock moves on
Tick ==
    /\ bucket.now < MaxTime
    /\ bucket' = [bucket EXCEPT !.now = bucket.now + 1]
    /\ UNCHANGED <<id_call, controller, cache, memory>>
    /\ UNCHANGED coreVars

\* bucket.consume(n), n whole tokens
ConsumeCall ==
    /\ \E n \in 0..(MaxCapacity + 1) :
          LET res == consume(bucket, n * TokenUnit)
          IN  bucket' = [res.bucket EXCEPT !.last =
                            [op |-> "consume", amount |-> n * TokenUnit, result |-> res.result,
                             before |-> bucket.tokens,
                             elapsed |-> bucket.now - bucket.last_refill_timestamp]]
    /\ UNCHANGED <<id_call, controller, cache, memory>>
    /\ UNCHANGED coreVars

NextBucket ==
    \/ Tick
    \/ ConsumeCall

InitBucketSpec ==
    /\ InitBucket /\ InitIdCallIdle /\ InitControllerIdle /\ InitCacheIdle /\ InitMemoryIdle
    /\ InitChunkerFixed /\ InitRankIdle /\ InitIndexIdle

SpecBucket == InitBucketSpec /\ [][NextBucket]_vars

(***************************************************************************)
(* ResponseCache (memory/responsecache.py).                                *)
(*                                                                         *)
(* Redis is a map from key to value.  A key is the string                  *)
(* "response:{model}:{user_id}:{payload_hash}", kept as its sequence of    *)
(* characters with the word "response" and the hex digest as one symbol    *)
(* each.  scan_iter(match=pattern) gives the keys that match a glob        *)
(* pattern, in which "*" stands for any run of characters.  Each entry     *)
(* remembers the set call that wrote it.  Model names may hold a colon, as *)
(* in "...-v1:0".                                                          *)
(***************************************************************************)
CacheUserIds == {<<"0">>, <<"7">>}

CacheModels == {<<"m">>, <<"m", ":", "0">>}

\* sha256 hex digests of the payloads: one per payload
PayloadHashes == {"h1", "h2"}

CacheResponses == {"r1", "r2"}

\* hashlib.sha256(json.dumps(payload, sort_keys=True)).hexdigest(), the
\* payload being named by its digest
_make_hash(payload) == payload

\* f"response:{model}:{user_id}:{payload_hash}"
_build_key(user_id, model, payload) ==
    <<"response", ":">> \o model \o <<":">> \o user_id \o <<":", _make_hash(payload)>>

\* Redis glob matching of a key against a pattern of literals and "*"
RECURSIVE GlobMatch(_, _)
GlobMatch(pattern, key) ==
    IF pattern = <<>> THEN key = <<>>
    ELSE IF Head(pattern) = "*"
    THEN \E k \in 0..Len(key) : GlobMatch(Tail(pattern), SubSeq(key, k + 1, Len(key)))
    ELSE key # <<>> /\ Head(key) = Head(pattern) /\ GlobMatch(Tail(pattern), Tail(key))

\* f"response:*:{user_id}:*"
InvalidatePattern(user_id) == <<"response", ":", "*", ":">> \o user_id \o <<":", "*">>

\* The store after redis.setex(key, ttl, json.dumps(response))
CacheSet(store, user_id, model, payload, response) ==
    LET key == _build_key(user_id, model, payload)
    IN  [k \in (DOMAIN store) \cup {key} |->
            IF k = key
            THEN [user_id |-> user_id, model |-> model, payload |-> payload, response |-> response]
            ELSE store[k]]

\* The store after invalidate_user: every key scan_iter gives is deleted
invalidate_user(store, user_id) ==
    [k \in {key \in DOMAIN store : ~GlobMatch(InvalidatePattern(user_id), key)} |-> store[k]]

InitCache == cache = [made |-> TRUE, store |-> [k \in {} |-> 0], last |-> [op |-> "init"]]

\* await cache.set(user_id, model, payload, response)
CacheSetCall ==
    /\ \E user_id \in CacheUserIds, model \in CacheModels, payload \in PayloadHashes,
          response \in CacheResponses :
          cache' = [cache EXCEPT !.store = CacheSet(cache.store, user_id, model, payload, response),
                                 !.last = [op |-> "set", user_id |-> user_id]]
    /\ UNCHANGED <<id_call, controller, bucket, memory>>
    /\ UNCHANGED coreVars

\* await cache.get(user_id, model, payload)
CacheGetCall ==
    /\ \E user_id \in CacheUserIds, model \in CacheModels, payload \in PayloadHashes :
          LET key == _build_key(user_id, model, payload)
          IN  cache' = [cache EXCEPT !.last =
                            [op |-> "get", user_id |-> user_id,
                             result |-> IF key \in DOMAIN cache.store
                                        THEN cache.store[key].response ELSE "None"]]
    /\ UNCHANGED <<id_call, controller, bucket, memory>>
    /\ UNCHANGED coreVars

\* await cache.invalidate_user(user_id)
InvalidateUserCall ==
    /\ \E user_id \in CacheUserIds :
          cache' = [cache EXCEPT !.store = invalidate_user(cache.store, user_id),
                                 !.last = [op |-> "invalidate_user", user_id |-> user_id,
                                           before |-> cache.store]]
    /\ UNCHANGED <<id_call, controller, bucket, memory>>
    /\ UNCHANGED coreVars

NextCache ==
    \/ CacheSetCall
    \/ CacheGetCall
    \/ InvalidateUserCall

InitCacheSpec ==
    /\ InitCache /\ InitIdCallIdle /\ InitControllerIdle /\ InitBucketIdle /\ InitMemoryIdle
    /\ InitChunkerFixed /\ InitRankIdle /\ InitIndexIdle

SpecCache == InitCacheSpec /\ [][NextCache]_vars

(***************************************************************************)
(* RedisMemory (memory/redis_memory.py).                                   *)
(*                                                                         *)
(* Redis holds, for each key "chat:{session_id}", a list and an expiry:    *)
(* NoExpiry or the seconds left.  A key whose list is empty does not       *)
(* exist.                                                                  *)
(* rpush creates the key without an expiry or appends and keeps the        *)
(* expiry; expire sets it; when the seconds run out the key is deleted.    *)
(* add_message awaits rpush and then expire: two steps, between which      *)
(* other calls run and at which the call can be cancelled.                 *)
(***************************************************************************)
MemSessions == {"s1", "s2"}

MemCallers == {"t1", "t2"}

MemContents == {"x", "y"}

NoExpiry == [set |-> FALSE, left |-> 0]

ExpiresIn(n) == [set |-> TRUE, left |-> n]

\* json.dumps({"role": role, "content": content})
json_dumps(d) == [json |-> d]

\* json.loads(m)
json_loads(m) == m.json

\* Redis LRANGE key start stop: zero-based, stop included, negative indices
\* count from the end, out-of-range indices are clamped
LRange(list, lo, stop) ==
    LET n == Len(list)
        first == IF lo < 0 THEN Max(n + lo, 0) ELSE lo
        last_ == IF stop < 0 THEN n + stop ELSE Min(stop, n - 1)
    IN  IF first > last_ \/ first >= n THEN <<>> ELSE SubSeq(list, first + 1, last_ + 1)

\* RedisMemory.get_messages(session_id, limit) on the list of the session
get_messages(list, limit) ==
    LET messages == LRange(list, 0 - limit, 0 - 1)
    IN  [i \in 1..Len(messages) |-> json_loads(messages[i])]

InitMemory ==
    memory = [made |-> TRUE,
              lists |-> [s \in MemSessions |-> <<>>],
              expiry |-> [s \in MemSessions |-> NoExpiry],
              calls |-> [t \in MemCallers |-> [pc |-> "idle"]],
              last |-> [op |-> "init"]]

\* add_message up to its first await: key, message, rpush
AddMessageRpush ==
    /\ \E t \in MemCallers, s \in MemSessions, content \in MemContents :
          /\ memory.calls[t].pc = "idle"
          /\ Len(memory.lists[s]) < MaxMessages
          /\ memory' = [memory EXCEPT
                !.lists[s] = Append(@, json_dumps([role |-> "user", content |-> content])),
                !.calls[t] = [pc |-> "pushed", session |-> s],
                !.last = [op |-> "rpush", session |-> s]]
    /\ UNCHANGED <<id_call, controller, bucket, cache>>
    /\ UNCHANGED coreVars

\* add_message from its first await on: expire(key, self.ttl), which does
\* nothing when the key is gone
AddMessageExpire ==
    /\ \E t \in MemCallers :
          /\ memory.calls[t].pc = "pushed"
          /\ LET s == memory.calls[t].session
             IN  memory' = [memory EXCEPT
                    !.expiry[s] = IF memory.lists[s] # <<>> THEN ExpiresIn(MemTtl) ELSE @,
                    !.calls[t] = [pc |-> "idle"],
                    !.last = [op |-> "expire", session |-> s]]
    /\ UNCHANGED <<id_call, controller, bucket, cache>>
    /\ UNCHANGED coreVars

\* add_message is cancelled, or its process ends, at the await of rpush
AddMessageStops ==
    /\ \E t \in MemCallers :
          /\ memory.calls[t].pc = "pushed"
          /\ memory' = [memory EXCEPT
                !.calls[t] = [pc |-> "idle"],
                !.last = [op |-> "stopped", session |-> memory.calls[t].session]]
    /\ UNCHANGED <<id_call, controller, bucket, cache>>
    /\ UNCHANGED coreVars

\* await memory.get_messages(session_id, limit)
GetMessagesCall ==
    /\ \E s \in MemSessions, limit \in 0..(MaxMessages + 1) :
          memory' = [memory EXCEPT
                !.last = [op |-> "get_messages", session |-> s, limit |-> limit,
                          held |-> memory.lists[s],
                          result |-> get_messages(memory.lists[s], limit)]]
    /\ UNCHANGED <<id_call, controller, bucket, cache>>
    /\ UNCHANGED coreVars

\* await memory.clear(session_id)
ClearCall ==
    /\ \E s \in MemSessions :
          memory' = [memory EXCEPT !.lists[s] = <<>>, !.expiry[s] = NoExpiry,
                                   !.last = [op |-> "clear", session |-> s]]
    /\ UNCHANGED <<id_call, controller, bucket, cache>>
    /\ UNCHANGED coreVars

\* One second passes in Redis: expiries count down, keys that run out go
SecondPasses ==
    /\ \E s \in MemSessions : memory.expiry[s].set
    /\ memory' = [memory EXCEPT
          !.lists = [s \in MemSessions |->
                        IF memory.expiry[s] = ExpiresIn(1) THEN <<>> ELSE memory.lists[s]],
          !.expiry = [s \in MemSessions |->
                         IF ~memory.expiry[s].set \/ memory.expiry[s].left = 1 THEN NoExpiry
                         ELSE ExpiresIn(memory.expiry[s].left - 1)],
          !.last = [op |-> "second"]]
    /\ UNCHANGED <<id_call, controller, bucket, cache>>
    /\ UNCHANGED coreVars

NextMemory ==
    \/ AddMessageRpush
    \/ AddMessageExpire
    \/ AddMessageStops
    \/ GetMessagesCall
    \/ ClearCall
    \/ SecondPasses

InitMemorySpec ==
    /\ InitMemory /\ InitIdCallIdle /\ InitControllerIdle /\ InitBucketIdle /\ InitCacheIdle
    /\ InitChunkerFixed /\ InitRankIdle /\ InitIndexIdle

SpecMemory == InitMemorySpec /\ [][NextMemory]_vars

(***************************************************************************)
(* Claims about Chunker.split, checked under SpecChunker.                  *)
(***************************************************************************)
\* The offsets [chunk_start, chunk_end) of a fragment
OffsetRange(c) == c.chunk_start .. (c.chunk_end - 1)

SharedOffsets(a, b) == Cardinality(OffsetRange(a) \cap OffsetRange(b))

\* (chunk_id, text, chunk_start, chunk_end) of every fragment of a list
Identity(cs) == [i \in 1..Len(cs) |-> <<cs[i].chunk_id, cs[i].text, cs[i].chunk_start, cs[i].chunk_end>>]

\* A fragment cut from a window that reaches the end of the text
IsTailWindow(c) == c.chunk_end = Len(text)

\* C1: split terminates: every iteration of its loop moves the window start
\* forward, so the start reaches len(text) after at most len(text)
\* iterations and the loop exits. (In this loop an iteration that does not
\* move the start forward leaves it below len(text) for good, so the
\* statement is the claim's termination.)
C1_StartAdvancesUntilExit == [][(c_pc = "loop" /\ c_pc' = "loop") => start' > start]_vars

\* C2: the second call of split on the same text, source metadata and
\* parameters returns the same sequence of (chunk_id, text, chunk_start,
\* chunk_end) as the first.
C2_SplitTwiceSameFragments == Len(results) = 2 => Identity(results[2]) = Identity(results[1])

C2_Witness == Len(results) = 2 /\ Len(results[2]) >= 2

\* C3 as claimed: any two consecutive fragments share exactly overlap
\* offsets, except possibly the pair ending in the final fragment (a fragment
\* cut from a window reaching the end of the text, or the last fragment of a
\* returned list).
C3_ConsecutiveShareOverlap ==
    \A i \in 1..(Len(chunks) - 1) :
        \/ IsTailWindow(chunks[i + 1])
        \/ (c_pc = "returned" /\ i + 1 = Len(chunks))
        \/ SharedOffsets(chunks[i], chunks[i + 1]) = overlap

\* C3 as amended: two consecutive fragments cut from adjacent windows (no
\* whitespace-only window dropped between them) satisfy
\* chunk_start(next) = chunk_end(previous) - overlap, and share exactly
\* overlap offsets unless the later one is cut from a window reaching the
\* end of the text.
C3_AdjacentWindowsShareOverlap ==
    \A i \in 1..(Len(chunks) - 1) :
        windows[i + 1] = windows[i] + 1 =>
            /\ chunks[i + 1].chunk_start = chunks[i].chunk_end - overlap
            /\ (IsTailWindow(chunks[i + 1]) \/ SharedOffsets(chunks[i], chunks[i + 1]) = overlap)

C3_Witness ==
    \E i \in 1..(Len(chunks) - 1) :
        /\ windows[i + 1] = windows[i] + 1
        /\ overlap >= 1
        /\ ~IsTailWindow(chunks[i + 1])

(***************************************************************************)
(* Claims about select_context, RAGPipeline.answer and ReRanker.re_rank,   *)
(* checked under Spec.                                                     *)
(***************************************************************************)
SelectContextReturned == op = "select_context" /\ raised = "none"

ReRankReturned == op \in {"re_rank", "select_context"} /\ raised = "none"

\* The final score the claims speak of, times AlphaUnit: rerank_score without
\* blending, blend_alpha*rerank_score + (1-blend_alpha)*vector_score with it.
ClaimedFinalScore(c) ==
    IF config.blend_with_vector_score
    THEN config.blend_alpha * c.rerank_score + (AlphaUnit - config.blend_alpha) * c.vector_score
    ELSE AlphaUnit * c.rerank_score

\* The first min(n, len(s)) elements of s
FirstN(s, n) == SubSeq(s, 1, Min(n, Len(s)))

\* C4: select_context returns "high" exactly when re_rank returned at least
\* one fragment, and then returns re_rank's output unchanged, whatever the
\* policy.
C4_HighIffReRankedNonEmpty ==
    SelectContextReturned =>
        /\ (selected.confidence = "high") <=> (reranked # <<>>)
        /\ (reranked # <<>> => selected.chunks = reranked)

C4_Witness ==
    /\ SelectContextReturned
    /\ policy = "fail_closed"
    /\ Len(reranked) >= 2
    /\ selected.confidence = "high"

\* C5: when re_rank returns nothing under "fail_closed", select_context
\* returns ([], "none").
C5_FailClosedReturnsNone ==
    (SelectContextReturned /\ reranked = <<>> /\ policy = "fail_closed") =>
        selected = [chunks |-> <<>>, confidence |-> "none"]

C5_Witness ==
    /\ SelectContextReturned
    /\ reranked = <<>>
    /\ policy = "fail_closed"
    /\ Len(retrieved) >= 2
    /\ config.top_n_output >= 1
    /\ selected.chunks = <<>>

\* C6: when re_rank returns nothing under "fail_open" or "hybrid",
\* select_context returns the first min(top_n_output, len(candidates)) raw
\* candidates in vector order with "low", never more than top_n_output.
C6_FallbackIsRawPrefix ==
    (SelectContextReturned /\ reranked = <<>> /\ policy \in {"fail_open", "hybrid"}) =>
        /\ selected.confidence = "low"
        /\ selected.chunks = FirstN(retrieved, config.top_n_output)
        /\ Len(selected.chunks) <= config.top_n_output

C6_Witness ==
    /\ SelectContextReturned
    /\ reranked = <<>>
    /\ policy = "fail_open"
    /\ config.top_n_output >= 1
    /\ Len(retrieved) > config.top_n_output
    /\ config.top_k_input > config.top_n_output
    /\ Len(selected.chunks) = config.top_n_output

\* C7: answer on an empty selected context (an index holding no fragment)
\* returns the fixed refusal text with confidence "none" and never runs the
\* generation capability.
C7_EmptyContextRefuses ==
    (op = "answer" /\ retrieved = <<>>) =>
        /\ outcome = [kind |-> "returned", answer |-> "refusal", confidence |-> "none"]
        /\ llm_calls = 0

\* C8: re_rank's output is in non-increasing order of final score.
C8_SortedByFinalScore ==
    ReRankReturned =>
        \A i, j \in 1..Len(reranked) :
            i < j => ClaimedFinalScore(reranked[i]) >= ClaimedFinalScore(reranked[j])

C8_Witness ==
    /\ ReRankReturned
    /\ config.blend_with_vector_score
    /\ Len(reranked) >= 2
    /\ ClaimedFinalScore(reranked[1]) > ClaimedFinalScore(reranked[2])
    /\ reranked[1].rerank_score < reranked[2].rerank_score
    /\ reranked[1].chunk_id > reranked[2].chunk_id

\* C9: re_rank returns at most top_n_output fragments.
C9_AtMostTopN == ReRankReturned => Len(reranked) <= config.top_n_output

C9_Witness ==
    /\ ReRankReturned
    /\ config.top_n_output >= 1
    /\ Len(_apply_gating(scored, config)) > config.top_n_output
    /\ Len(reranked) = config.top_n_output

\* C10: every fragment re_rank returns has rerank_score >= min_score, with
\* or without blending.
C10_OutputAboveMinScore ==
    ReRankReturned => \A i \in 1..Len(reranked) : reranked[i].rerank_score >= config.min_score

C10_Witness ==
    /\ ReRankReturned
    /\ config.blend_with_vector_score
    /\ reranked # <<>>
    /\ \E i \in 1..Len(scored) :
          /\ scored[i].rerank_score < config.min_score
          /\ ClaimedFinalScore(scored[i]) >= AlphaUnit * config.min_score

\* The chunks of what the scorer returned that the claims call gated
ClaimedGated == SelectSeq(scored, LAMBDA c : c.rerank_score >= config.min_score)

ChunkIds(chs) == {chs[i].chunk_id : i \in 1..Len(chs)}

ReRankCalled == op \in {"re_rank", "select_context"}

\* C11: if every fragment the scorer returns is below min_score, re_rank
\* returns [] (nothing substituted, nothing padded).
C11_AllGatedOutReturnsEmpty ==
    (ReRankReturned /\ scorer_calls > 0 /\ \A i \in 1..Len(scored) : scored[i].rerank_score < config.min_score) =>
        reranked = <<>>

C11_Witness ==
    /\ ReRankReturned
    /\ Len(scored) >= 2
    /\ config.top_n_output >= 1
    /\ \A i \in 1..Len(scored) : scored[i].rerank_score < config.min_score
    /\ reranked = <<>>

\* C12: re_rank returns exactly min(top_n_output, number of gated fragments)
\* fragments, each one the scorer returned, and no gated fragment left out has
\* a final score strictly greater than one that is in.
C12_ReturnsTheBest ==
    ReRankReturned =>
        /\ Len(reranked) = Min(config.top_n_output, Len(ClaimedGated))
        /\ \A i \in 1..Len(reranked) : \E j \in 1..Len(scored) : reranked[i] = scored[j]
        /\ \A j \in 1..Len(ClaimedGated) :
              ClaimedGated[j].chunk_id \notin ChunkIds(reranked) =>
                  \A i \in 1..Len(reranked) :
                      ClaimedFinalScore(ClaimedGated[j]) <= ClaimedFinalScore(reranked[i])

C12_Witness ==
    /\ ReRankReturned
    /\ reranked # <<>>
    /\ Len(ClaimedGated) > Len(reranked)
    /\ \E j \in 1..Len(ClaimedGated) :
          /\ ClaimedGated[j].chunk_id \notin ChunkIds(reranked)
          /\ ClaimedFinalScore(ClaimedGated[j]) < ClaimedFinalScore(reranked[1])
          /\ ClaimedGated[j].chunk_id < reranked[1].chunk_id

\* C13: the scorer is run once, on exactly the first min(top_k_input,
\* len(candidates)) candidates in their order; a candidate at a later
\* position is never in re_rank's output.
C13_CapsBeforeScoring ==
    (ReRankCalled /\ retrieved # <<>>) =>
        /\ scorer_calls = 1
        /\ scorer_input = FirstN(retrieved, config.top_k_input)
        /\ \A i \in 1..Len(scored) : scored[i].chunk_id <= config.top_k_input
        /\ (raised = "none" => \A i \in 1..Len(reranked) : reranked[i].chunk_id <= config.top_k_input)

C13_Witness ==
    /\ ReRankReturned
    /\ config.top_k_input >= 1
    /\ Len(retrieved) > config.top_k_input
    /\ Len(scorer_input) = config.top_k_input
    /\ reranked # <<>>

\* C14: re_rank on an empty candidate list returns [] without running the
\* scorer.
C14_EmptyInputSkipsScorer ==
    (ReRankCalled /\ retrieved = <<>>) =>
        /\ raised = "none"
        /\ reranked = <<>>
        /\ scorer_calls = 0

C14_Witness ==
    /\ op = "re_rank"
    /\ retrieved = <<>>
    /\ faulty = "scorer"
    /\ config.top_k_input >= 1
    /\ reranked = <<>>
    /\ scorer_calls = 0

\* C15: answer returns a triple (answer text, confidence, fragments) whose
\* confidence is the label select_context gave under "hybrid" and whose
\* fragments are the ones select_context chose.
C15_AnswerReturnsTriple ==
    (op = "answer" /\ faulty = "none") =>
        /\ outcome.kind = "returned"
        /\ policy = "hybrid"
        /\ outcome.confidence = selected.confidence
        /\ outcome.fragments = selected.chunks

\* The error a collaborator raises
ErrorOf(c) ==
    CASE c = "embedder" -> "EmbedderError"
      [] c = "index" -> "IndexError"
      [] c = "scorer" -> "ScorerError"
      [] c = "llm" -> "GenerationError"

C17_ConfigIsValid ==
    ReRankCalled =>
        /\ config.top_n_output <= config.top_k_input
        /\ 0 <= config.blend_alpha
        /\ config.blend_alpha <= AlphaUnit

(***************************************************************************)
(* Further claims about Chunker.split, checked under SpecChunker.          *)
(***************************************************************************)

\* C20: split of an empty or whitespace-only text returns an empty sequence
\* without entering the loop or failing; on any other text every fragment
\* emitted has a non-empty text.
C20_BlankGivesNoneElseNonEmptyTexts ==
    /\ IsBlank(text) =>
          /\ c_pc \in {"idle", "returned"}
          /\ chunks = <<>>
          /\ \A k \in 1..Len(results) : results[k] = <<>>
    /\ \A i \in 1..Len(chunks) : chunks[i].text # <<>>
    /\ \A k \in 1..Len(results) : \A i \in 1..Len(results[k]) : results[k][i].text # <<>>

C20_Witness ==
    /\ ~IsBlank(text)
    /\ c_pc = "returned"
    /\ Len(results) >= 1
    /\ Len(results[1]) >= 1
    /\ Len(windows) < iter
    /\ \A i \in 1..Len(results[1]) : results[1][i].text # <<>>

(***************************************************************************)
(* Claims about VectorStore.upsert (SpecStore) and build_index (SpecIndex). *)
(***************************************************************************)

\* C18: an upsert whose ids and embeddings differ in length fails with a
\* validation error and leaves the collection as it was.
C18_LengthMismatchRejected ==
    (upsert_call.made /\ Len(upsert_call.ids) # Len(upsert_call.embeddings)) =>
        /\ vs_error = "ValueError"
        /\ collection = upsert_call.before

C18_Witness ==
    /\ upsert_call.made
    /\ Len(upsert_call.ids) >= 1
    /\ Len(upsert_call.embeddings) >= 1
    /\ Len(upsert_call.ids) # Len(upsert_call.embeddings)
    /\ vs_error = "ValueError"
    /\ DOMAIN collection # {}
    /\ \E i \in 1..Len(upsert_call.ids) :
          /\ upsert_call.ids[i] \in DOMAIN collection
          /\ collection[upsert_call.ids[i]].document # upsert_call.documents[i]

SameRetrievedFields(r, c) ==
    /\ r.chunk_id = c.chunk_id
    /\ r.text = c.text
    /\ r.metadata = c.metadata
    /\ r.vector_score = c.vector_score

\* C21: a scorer returns one ranked fragment per input fragment, in input
\* order, with chunk_id, text, metadata and vector_score as given; and
\* every fragment re_rank returns is one the scorer returned, with the same
\* vector_score and rerank_score.
C21_ScorerOnlyAddsScore ==
    op # "none" =>
        /\ Len(scored) = Len(scorer_input)
        /\ \A i \in 1..Len(scored) : SameRetrievedFields(scored[i], scorer_input[i])
        /\ \A i \in 1..Len(reranked) : \E j \in 1..Len(scored) :
              /\ reranked[i].chunk_id = scored[j].chunk_id
              /\ reranked[i].vector_score = scored[j].vector_score
              /\ reranked[i].rerank_score = scored[j].rerank_score
              /\ SameRetrievedFields(reranked[i], scorer_input[j])

C21_Witness ==
    /\ op = "re_rank_scored"
    /\ Len(scored) >= 3
    /\ config.batch_size = 2
    /\ Len(reranked) >= 2
    /\ reranked[1].chunk_id > reranked[2].chunk_id
    /\ reranked[1].rerank_score # reranked[1].vector_score

(***************************************************************************)
(* Claims about Chunker._build_chunk_id, checked under SpecChunkId.        *)
(***************************************************************************)

\* What the identifier is said to depend on
IdKey(a) == <<a.source_id, a.start, PyPrefix(a.chunk_text, PrefixLen)>>

\* C22: two fragments get the same chunk identifier exactly when they agree
\* on source id, start offset and the first 100 characters of their text.
C22_IdDistinguishesPositionAndContent ==
    id_call.made =>
        ((id_call.first_id = id_call.second_id) <=> (IdKey(id_call.first) = IdKey(id_call.second)))

(***************************************************************************)
(* Claims about ChatController.send_message, checked under SpecController. *)
(***************************************************************************)

\* C23: send_message with an empty or whitespace-only message fails with
\* HTTP status 400 and detail "Message cannot be empty", and never calls
\* process_chat_message.
C23_BlankMessageIs400 ==
    (controller.pc = "done" /\ IsBlank(controller.message)) =>
        /\ ~controller.called
        /\ controller.outcome.kind = "raise"
        /\ controller.outcome.exc.status_code = HTTP_400_BAD_REQUEST
        /\ controller.outcome.exc.detail = "Message cannot be empty"

(***************************************************************************)
(* Claims about TokenBucket, checked under SpecBucket.                     *)
(***************************************************************************)

\* The count a refill for the elapsed time gives, from the last call's record
RefilledCount == Min(bucket.capacity, bucket.last.before + bucket.last.elapsed * bucket.refill_rate)

\* C24: after any sequence of consume calls (amounts >= 0, the clock never
\* going back) the bucket has 0 <= tokens <= capacity.
C24_TokensWithinBounds ==
    bucket.made => (0 <= bucket.tokens /\ bucket.tokens <= bucket.capacity)

C24_Witness ==
    /\ bucket.made
    /\ bucket.last.op = "consume"
    /\ bucket.last.result
    /\ bucket.last.amount > 0
    /\ bucket.last.before < bucket.capacity
    /\ bucket.last.before + bucket.last.elapsed * bucket.refill_rate > bucket.capacity
    /\ bucket.tokens = 0

\* C25: consume(n) refills for the elapsed time first; it returns True
\* exactly when the refilled count is >= n and then lowers the count by
\* exactly n; when it returns False the count stays the refilled count.
C25_ConsumeChargesOnlyWhenAllowed ==
    (bucket.made /\ bucket.last.op = "consume") =>
        /\ bucket.last.result <=> (RefilledCount >= bucket.last.amount)
        /\ bucket.last.result => bucket.tokens = RefilledCount - bucket.last.amount
        /\ ~bucket.last.result => bucket.tokens = RefilledCount
        /\ bucket.last_refill_timestamp <= bucket.now

C25_Witness ==
    /\ bucket.made
    /\ bucket.last.op = "consume"
    /\ ~bucket.last.result
    /\ bucket.last.elapsed > 0
    /\ bucket.refill_rate > 0
    /\ bucket.tokens > bucket.last.before
    /\ bucket.tokens > 0
    /\ bucket.tokens < bucket.last.amount

(***************************************************************************)
(* Claims about ResponseCache, checked under SpecCache.                    *)
(***************************************************************************)

\* C26: invalidate_user(u) deletes every entry stored for user u, whatever
\* its model and payload, and leaves every entry stored for another user as
\* it was.
C26_InvalidateTouchesOnlyThatUser ==
    (cache.made /\ cache.last.op = "invalidate_user") =>
        \A key \in DOMAIN cache.last.before :
            IF cache.last.before[key].user_id = cache.last.user_id
            THEN key \notin DOMAIN cache.store
            ELSE key \in DOMAIN cache.store /\ cache.store[key] = cache.last.before[key]

(***************************************************************************)
(* Claims about RedisMemory, checked under SpecMemory.                     *)
(***************************************************************************)

\* The last k elements of a list, in their order
LastK(list, k) == SubSeq(list, Len(list) - Min(k, Len(list)) + 1, Len(list))

\* C27: for a session holding n messages and every limit >= 0,
\* get_messages returns the min(limit, n) most recently added messages, in
\* the order they were added, and never more than limit of them.
C27_GetMessagesReturnsLastLimit ==
    (memory.made /\ memory.last.op = "get_messages") =>
        /\ Len(memory.last.result) = Min(memory.last.limit, Len(memory.last.held))
        /\ Len(memory.last.result) <= memory.last.limit
        /\ memory.last.result =
              [i \in 1..Min(memory.last.limit, Len(memory.last.held)) |->
                  json_loads(LastK(memory.last.held, memory.last.limit)[i])]

\* C28: every session key that holds at least one message carries an
\* expiry of at most ttl seconds, in every reachable state.
C28_EveryKeyHasExpiry ==
    memory.made =>
        \A s \in MemSessions :
            memory.lists[s] # <<>> =>
                /\ memory.expiry[s].set
                /\ memory.expiry[s].left <= MemTtl

(***************************************************************************)
(* Further claims about ReRanker.re_rank (Spec) and Chunker.split          *)
(* (SpecChunker).                                                          *)
(***************************************************************************)

\* Where the scorer returned the chunk
ScoredPosition(c) == CHOOSE k \in 1..Len(scored) : scored[k].chunk_id = c.chunk_id

\* C29: two fragments of re_rank's output with equal final score are in the
\* relative order in which the scorer returned them, which is the vector
\* order of the candidates.
C29_TiesKeepRetrievalOrder ==
    ReRankReturned =>
        \A i, j \in 1..Len(reranked) :
            (i < j /\ ClaimedFinalScore(reranked[i]) = ClaimedFinalScore(reranked[j])) =>
                /\ ScoredPosition(reranked[i]) < ScoredPosition(reranked[j])
                /\ reranked[i].chunk_id < reranked[j].chunk_id

C29_Witness ==
    /\ ReRankReturned
    /\ config.blend_with_vector_score
    /\ Len(reranked) >= 3
    /\ reranked[1].chunk_id > reranked[2].chunk_id
    /\ ClaimedFinalScore(reranked[2]) = ClaimedFinalScore(reranked[3])
    /\ reranked[2].rerank_score # reranked[3].rerank_score
    /\ reranked[2].chunk_id < reranked[3].chunk_id

\* C30: in the fragment sequence split builds, chunk_start strictly
\* increases from each fragment to the next, and every fragment has
\* 0 <= chunk_start < chunk_end <= len(text).
C30_StartsStrictlyIncrease ==
    /\ \A i \in 1..Len(chunks) :
          /\ 0 <= chunks[i].chunk_start
          /\ chunks[i].chunk_start < chunks[i].chunk_end
          /\ chunks[i].chunk_end <= Len(text)
    /\ \A i \in 1..(Len(chunks) - 1) : chunks[i].chunk_start < chunks[i + 1].chunk_start

====
